---- MODULE Spec2Model ----
(***************************************************************************)
(* A model of test-workspace/src/data_processor.py: the pure functions     *)
(* validate_item, transform_item and process_data, and the DataProcessor   *)
(* class (constructor, process_batch, get_stats).                          *)
(*                                                                         *)
(* A Python dict is a TLA+ function from its keys to its values.  A Python *)
(* value stored under 'value' carries its type: an int, a str or None.     *)
(* An exception is an outcome record whose field exc names it.  The        *)
(* program is single threaded: at most one process_batch frame is live     *)
(* (pc = "loop"), and one pass of its for loop is one step.                *)
(***************************************************************************)
EXTENDS Integers, Sequences, FiniteSets, TLC

VARIABLES
    batch_size,        \* self.batch_size of every constructed DataProcessor
    processed_count,   \* self.processed_count of every constructed DataProcessor
    pc,                \* "idle": no frame is live; "loop": process_batch is in its for loop
    self,              \* the processor of the live (or the most recent) process_batch call
    items,             \* the argument of that call
    i,                 \* the loop variable of that call: the next value of range(0, len(items), batch_size)
    results,           \* the local list results of that call
    ret,               \* per processor, the outcome of the most recent call made on it
    count0,            \* history: processed_count of self when that call was entered
    slices,            \* history: how many passes of the for loop that call has completed
    passed,            \* history: per processor, the number of items passed to process_batch so far
    failed,            \* history: per processor, whether some process_batch call on it raised
    pending            \* the caller: the processors still to receive the current input

vars == <<batch_size, processed_count, pc, self, items, i, results, ret,
          count0, slices, passed, failed, pending>>

----------------------------------------------------------------------------
(* Bounds of the model *)

MaxLen == 3       \* the longest input list passed to process_batch
MaxBatch == 2     \* the largest batch size chosen explicitly at construction
MaxPassed == 4    \* the most items passed to one processor over all its calls

(* Program constant *)
DEFAULT_BATCH_SIZE == 100

----------------------------------------------------------------------------
(* Python values and their multiplication by an int *)

PyInt(n) == [kind |-> "int", n |-> n]
PyStr(s) == [kind |-> "str", s |-> s]
PyNone == [kind |-> "none"]

SupportsMul(v) == v.kind \in {"int", "str"}

RECURSIVE Repeat(_, _)
Repeat(s, k) == IF k <= 0 THEN <<>> ELSE s \o Repeat(s, k - 1)

\* v * k for a v that supports it: the product of ints, the repetition of a str.
Mul(v, k) == IF v.kind = "int" THEN PyInt(v.n * k) ELSE PyStr(Repeat(v.s, k))

Min(a, b) == IF a <= b THEN a ELSE b

\* A faulty PySlice: the upper index is taken as inclusive.
PySliceInclusive(s, lo, hi) == SubSeq(s, lo + 1, Min(hi + 1, Len(s)))

\* s[lo:hi] for 0 <= lo and 0 <= hi (0-based, hi exclusive, clamped to len(s)).
PySlice(s, lo, hi) == SubSeq(s, lo + 1, Min(hi, Len(s)))

\* A faulty InRange: the sign of the step is ignored.
InRangeUnsigned(n, stop, step) == n < stop

\* Whether the index n is one that range(0, stop, step) yields next (step # 0).
InRange(n, stop, step) == IF step > 0 THEN n < stop ELSE n > stop

\* A faulty RangeNext: the index advances by one, not by the step.
RangeNextOne(n, step) == n + 1

\* The index range(0, stop, step) yields after n.
RangeNext(n, step) == n + step

----------------------------------------------------------------------------
(* The module-level functions *)

\* A faulty validate_item: an item of value 0 is taken as invalid.
validate_itemNonZero(item) ==
    /\ "id" \in DOMAIN item /\ "value" \in DOMAIN item
    /\ item["value"] # PyInt(0)

validate_item(item) == "id" \in DOMAIN item /\ "value" \in DOMAIN item

\* A faulty transform_item: an int value is raised by 2, not doubled.
transform_itemPlusTwo(item) ==
    [id |-> item["id"],
     value |-> IF item["value"]["kind"] = "int"
               THEN PyInt(item["value"]["n"] + 2) ELSE Mul(item["value"], 2),
     processed |-> TRUE]

\* For an item whose value supports the multiplication; otherwise the
\* expression item['value'] * 2 raises TypeError (see process_data_from).
transform_item(item) ==
    [id |-> item["id"], value |-> Mul(item["value"], 2), processed |-> TRUE]

\* A faulty process_data_from: an item whose transformation fails is skipped.
RECURSIVE process_data_skipping(_, _, _)
process_data_skipping(data, k, processed) ==
    IF k > Len(data) THEN [exc |-> "none", value |-> processed]
    ELSE IF validate_item(data[k]) /\ SupportsMul(data[k]["value"])
         THEN process_data_skipping(data, k + 1, Append(processed, transform_item(data[k])))
         ELSE process_data_skipping(data, k + 1, processed)

\* The for loop of process_data from the k-th item on, processed being the list
\* built so far.  A TypeError raised by transform_item leaves the loop and the
\* function: the outcome carries no list, only the position of the item.
RECURSIVE process_data_from(_, _, _)
process_data_from(data, k, processed) ==
    IF k > Len(data) THEN [exc |-> "none", value |-> processed]
    ELSE IF validate_item(data[k])
         THEN IF SupportsMul(data[k]["value"])
              THEN process_data_from(data, k + 1, Append(processed, transform_item(data[k])))
              ELSE [exc |-> "TypeError", at |-> k]
         ELSE process_data_from(data, k + 1, processed)

process_data(data) == process_data_from(data, 1, <<>>)

\* A faulty CountAfter: only the items that passed validation are counted.
CountAfterValid(count, batch) == count + Len(process_data(batch)["value"])

\* A faulty CountAfter: the count is assigned, not added to.
CountAfterAssign(count, batch) == Len(batch)

\* self.processed_count += len(batch), once process_data has returned.
CountAfter(count, batch) == count + Len(batch)

\* A faulty CountOnRaise: the slice is counted before it is processed.
CountOnRaiseCounted(count, batch) == count + Len(batch)

\* self.processed_count when process_data has raised: the += is not reached.
CountOnRaise(count, batch) == count

----------------------------------------------------------------------------
(* Inputs *)

ItemPool ==
    { [id |-> 1, value |-> PyInt(1)],
      [id |-> 2, value |-> PyInt(0)],
      [id |-> 3],
      [value |-> PyInt(1)],
      [id |-> 4, value |-> PyNone],
      [id |-> 5, value |-> PyStr(<<"a">>)] }

\* The items on which transform_item does not fail when process_data reaches it.
SafePool == { x \in ItemPool : validate_item(x) => SupportsMul(x["value"]) }

\* The lists of at most n items of pool.
Lists(pool, n) == UNION { [1..k -> pool] : k \in 0..n }

Inputs == Lists(ItemPool, MaxLen)

BatchSizes == (0 - 1)..MaxBatch \cup {DEFAULT_BATCH_SIZE}

Procs == DOMAIN batch_size

NoCall == [op |-> "none"]

----------------------------------------------------------------------------
(* DataProcessor *)

\* DataProcessor(b) for every processor of the set ps: __init__ stores b
\* unchecked and sets processed_count to 0.
Constructed(ps, sizes) ==
    /\ batch_size \in [ps -> sizes]
    /\ processed_count = [p \in ps |-> 0]
    /\ pc = "idle"
    /\ self = 1
    /\ items = <<>>
    /\ i = 0
    /\ results = <<>>
    /\ ret = [p \in ps |-> NoCall]
    /\ count0 = 0
    /\ slices = 0
    /\ passed = [p \in ps |-> 0]
    /\ failed = [p \in ps |-> FALSE]
    /\ pending = {}

Init == Constructed({1}, BatchSizes)

\* The caller hands every input to each processor in turn, lowest first: the
\* processor it calls next, and the inputs it may pass to it out of the set all.
NextProc == CHOOSE p \in (IF pending = {} THEN Procs ELSE pending) :
                \A q \in (IF pending = {} THEN Procs ELSE pending) : p <= q

Offered(pool) ==
    IF pending = {}
    THEN Lists(pool, Min(MaxLen, MaxPassed - passed[NextProc]))
    ELSE {items}

\* process_batch(items) is entered on processor p: results = [] and range(0,
\* len(items), self.batch_size) are evaluated; range raises ValueError for a
\* step of 0.
process_batch(p, its) ==
    /\ pc = "idle"
    /\ passed[p] + Len(its) <= MaxPassed
    /\ self' = p
    /\ items' = its
    /\ count0' = processed_count[p]
    /\ slices' = 0
    /\ passed' = [passed EXCEPT ![p] = @ + Len(its)]
    /\ pending' = (IF pending = {} THEN Procs ELSE pending) \ {p}
    /\ i' = 0
    /\ results' = <<>>
    /\ IF batch_size[p] = 0
       THEN /\ pc' = "idle"
            /\ ret' = [ret EXCEPT ![p] = [op |-> "process_batch", exc |-> "ValueError"]]
            /\ failed' = [failed EXCEPT ![p] = TRUE]
       ELSE /\ pc' = "loop"
            /\ ret' = [ret EXCEPT ![p] = NoCall]
            /\ UNCHANGED failed
    /\ UNCHANGED <<batch_size, processed_count>>

\* One pass of the for loop of process_batch, or its end and the return.
Iterate ==
    /\ pc = "loop"
    /\ LET B == batch_size[self]
           batch == PySlice(items, i, i + B)
           out == process_data(batch)
       IN  IF InRange(i, Len(items), B)
           THEN IF out.exc = "none"
                THEN /\ results' = results \o out.value
                     /\ processed_count' = [processed_count EXCEPT ![self] = CountAfter(@, batch)]
                     /\ i' = RangeNext(i, B)
                     /\ slices' = slices + 1
                     /\ UNCHANGED <<pc, ret, failed>>
                ELSE /\ pc' = "idle"
                     /\ ret' = [ret EXCEPT ![self] =
                                  [op |-> "process_batch", exc |-> out.exc, at |-> i + out.at - 1]]
                     /\ failed' = [failed EXCEPT ![self] = TRUE]
                     /\ processed_count' = [processed_count EXCEPT ![self] = CountOnRaise(@, batch)]
                     /\ results' = <<>>
                     /\ i' = 0
                     /\ UNCHANGED slices
           ELSE /\ pc' = "idle"
                /\ ret' = [ret EXCEPT ![self] =
                             [op |-> "process_batch", exc |-> "none", value |-> results]]
                /\ results' = <<>>
                /\ i' = 0
                /\ UNCHANGED <<processed_count, slices, failed>>
    /\ UNCHANGED <<batch_size, self, items, count0, passed, pending>>

\* A faulty get_stats: it resets the count it has read.
get_statsAndReset(p) ==
    /\ pc = "idle"
    /\ ret' = [ret EXCEPT ![p] =
                 [op |-> "get_stats", exc |-> "none",
                  value |-> [processed_count |-> processed_count[p],
                             batch_size |-> batch_size[p]]]]
    /\ processed_count' = [processed_count EXCEPT ![p] = 0]
    /\ UNCHANGED <<batch_size, pc, self, items, i, results,
                   count0, slices, passed, failed, pending>>

get_stats(p) ==
    /\ pc = "idle"
    /\ ret' = [ret EXCEPT ![p] =
                 [op |-> "get_stats", exc |-> "none",
                  value |-> [processed_count |-> processed_count[p],
                             batch_size |-> batch_size[p]]]]
    /\ UNCHANGED <<batch_size, processed_count, pc, self, items, i, results,
                   count0, slices, passed, failed, pending>>

Next ==
    \/ \E its \in Offered(ItemPool) : process_batch(NextProc, its)
    \/ Iterate
    \/ \E p \in Procs : get_stats(p)

Spec == Init /\ [][Next]_vars

\* Two processors with different positive batch sizes, given the same sequence of inputs,
\* none of which makes a transformation fail.
InitPair ==
    /\ Constructed({1, 2}, {b \in BatchSizes : b >= 1})
    /\ batch_size[1] < batch_size[2]

NextPair ==
    \/ \E its \in Offered(SafePool) : process_batch(NextProc, its)
    \/ Iterate
    \/ \E p \in Procs : get_stats(p)

SpecPair == InitPair /\ [][NextPair]_vars

----------------------------------------------------------------------------
(* Vocabulary of the properties *)

\* The most recent call on the processor self was process_batch and is over.
Finished == pc = "idle" /\ ret[self]["op"] = "process_batch"
Returned == Finished /\ ret[self]["exc"] = "none"
Raised(e) == Finished /\ ret[self]["exc"] = e

\* No process_batch frame is live on processor p.
AtRest(p) == ~(pc = "loop" /\ self = p)

\* ceil(n / b) for b >= 1.
NumSlices(n, b) == (n + b - 1) \div b

\* The k-th slice (k = 0, 1, ...) of its cut every b items, by position.
SliceAt(its, b, k) == [j \in 1..Min(b, Len(its) - k * b) |-> its[k * b + j]]

\* The outputs of process_data on the first n slices, one after the other.
RECURSIVE ConcatOutputs(_, _, _)
ConcatOutputs(its, b, n) ==
    IF n = 0 THEN <<>>
    ELSE ConcatOutputs(its, b, n - 1) \o process_data(SliceAt(its, b, n - 1))["value"]

\* The total length of the first n slices.
RECURSIVE SumLengths(_, _, _)
SumLengths(its, b, n) ==
    IF n = 0 THEN 0 ELSE SumLengths(its, b, n - 1) + Len(SliceAt(its, b, n - 1))

HasBoth(x) == {"id", "value"} \subseteq DOMAIN x

\* Twice a value, by addition and concatenation.
Twice(v) == IF v["kind"] = "int" THEN [kind |-> "int", n |-> v["n"] + v["n"]]
            ELSE [kind |-> "str", s |-> v["s"] \o v["s"]]

\* What process_data is to return: the valid items in order, each transformed.
Expected(its) ==
    LET valid == SelectSeq(its, HasBoth)
    IN  [k \in 1..Len(valid) |->
            [id |-> valid[k]["id"], value |-> Twice(valid[k]["value"]), processed |-> TRUE]]

\* The positions (from 1) of the items whose transformation fails.
BadAt(its) == { k \in 1..Len(its) : HasBoth(its[k]) /\ its[k]["value"]["kind"] = "none" }
FirstBad(its) == CHOOSE k \in BadAt(its) : \A m \in BadAt(its) : k <= m

----------------------------------------------------------------------------
(* C1: processed_count and the number of items passed *)

----------------------------------------------------------------------------
(* C2: the slices of process_batch *)

\* C2: for batch_size B >= 1 and N items, after n passes of the loop the index
\* is n * B, results is the concatenation of process_data over the slices
\* 0..n-1 (slice k being the items k*B+1..min((k+1)*B, N)) and processed_count
\* has grown by their lengths; the call returns after ceil(N / B) slices, which
\* hold every item exactly once, with that concatenation.
C2_SlicesInOrder ==
    LET B == batch_size[self]
        N == Len(items)
    IN  B >= 1 =>
          /\ \A n \in 1..N :
                Cardinality({ k \in 0..(NumSlices(N, B) - 1) :
                                \E j \in DOMAIN SliceAt(items, B, k) : k * B + j = n }) = 1
          /\ pc = "loop" =>
                /\ i = slices * B
                /\ slices <= NumSlices(N, B)
                /\ results = ConcatOutputs(items, B, slices)
                /\ processed_count[self] = count0 + SumLengths(items, B, slices)
          /\ Returned =>
                /\ slices = NumSlices(N, B)
                /\ ret[self]["value"] = ConcatOutputs(items, B, slices)
                /\ processed_count[self] = count0 + SumLengths(items, B, slices)
                /\ SumLengths(items, B, slices) = N

\* The scenario of three items, the second one without a value, cut by 2.
C2_Witness ==
    /\ Returned /\ batch_size[self] = 2 /\ Len(items) = 3
    /\ items[1] = [id |-> 1, value |-> PyInt(1)]
    /\ items[2] = [id |-> 3]
    /\ items[3] = [id |-> 2, value |-> PyInt(0)]
    /\ ret[self]["value"] = << [id |-> 1, value |-> PyInt(2), processed |-> TRUE],
                               [id |-> 2, value |-> PyInt(0), processed |-> TRUE] >>
    /\ processed_count[self] = count0 + 3

----------------------------------------------------------------------------
(* C3: process_data filters and maps in order *)

\* C3: when process_data returns, its list holds, in input order, exactly one
\* entry {id, 2 * value, processed: true} per input item that has both keys
\* and none for the others; it is no longer than the input and empty for an
\* empty input.  Checked on the whole input of every call and on the list a
\* call with a batch size of at least the input's length returned.
C3_FilterMapInOrder ==
    LET out == process_data(items)
    IN  /\ out["exc"] = "none" =>
            /\ out["value"] = Expected(items)
            /\ Len(out["value"]) <= Len(items)
            /\ items = <<>> => out["value"] = <<>>
        /\ (Returned /\ batch_size[self] >= Len(items) /\ Len(items) >= 1) =>
                ret[self]["value"] = Expected(items)

\* A call returned on an input with a valid and an invalid item, one slice.
C3_Witness ==
    /\ Returned /\ batch_size[self] >= Len(items)
    /\ \E k \in DOMAIN items : ~HasBoth(items[k])
    /\ \E k \in DOMAIN items : HasBoth(items[k])
    /\ ret[self]["value"] # <<>>
    /\ Len(ret[self]["value"]) < Len(items)

----------------------------------------------------------------------------
(* C4: processed_count never decreases *)

\* C4: processed_count starts at 0, no step decreases it, and only a step of
\* process_batch (a pass of its loop, on the processor of the call) changes it.
C4_CountMonotone ==
    /\ \A p \in Procs : processed_count[p] = 0
    /\ [][\A p \in Procs :
            /\ processed_count'[p] >= processed_count[p]
            /\ processed_count'[p] # processed_count[p] =>
                  (pc = "loop" /\ self = p)]_vars

\* A second call has raised the count again and get_stats has been called.
C4_Witness ==
    /\ pc = "idle" /\ ret[self]["op"] = "get_stats"
    /\ count0 > 0 /\ processed_count[self] > count0

----------------------------------------------------------------------------
(* C5: get_stats reads and does not write *)

\* C5: a get_stats step returns the current processed_count and batch_size of
\* its processor and changes neither; no step at all changes batch_size.
C5_StatsReadOnly ==
    [][/\ batch_size' = batch_size
       /\ \A p \in Procs :
            get_stats(p) =>
              /\ processed_count' = processed_count
              /\ ret'[p]["value"] = [processed_count |-> processed_count[p],
                                     batch_size |-> batch_size[p]]]_vars

\* get_stats has returned a count that process_batch had raised.
C5_Witness ==
    /\ pc = "idle" /\ ret[self]["op"] = "get_stats"
    /\ ret[self]["value"]["processed_count"] > 0
    /\ ret[self]["value"]["processed_count"] = processed_count[self]

----------------------------------------------------------------------------
(* C6: a failing transformation is propagated *)

\* C6 as stated: when the input holds an item with both keys whose value does
\* not support the multiplication, process_data raises the TypeError of
\* transform_item at the first such item and returns no list, and no
\* process_batch call on that input, on any processor, returns a list.
C6_FailurePropagates ==
    BadAt(items) # {} =>
        /\ process_data(items) = [exc |-> "TypeError", at |-> FirstBad(items)]
        /\ Finished =>
              /\ ret[self]["exc"] # "none"
              /\ ret[self]["exc"] = "TypeError" => ret[self]["at"] = FirstBad(items) - 1

\* C6 as amended: the same, for process_data and for every process_batch call
\* on a processor with batch_size >= 1 (the index at counts from 0 as the
\* list's own indices do); the outcome of the call carries no list.
C6_FailurePropagatesPositiveBatch ==
    BadAt(items) # {} =>
        /\ process_data(items) = [exc |-> "TypeError", at |-> FirstBad(items)]
        /\ (Finished /\ batch_size[self] >= 1) =>
              /\ ret[self] = [op |-> "process_batch", exc |-> "TypeError",
                              at |-> FirstBad(items) - 1]
              /\ "value" \notin DOMAIN ret[self]
              /\ results = <<>>

\* A call raised at a failing item that stands in the second slice, behind a
\* valid item whose transformed form was already in results.
C6_Witness ==
    /\ Raised("TypeError") /\ batch_size[self] >= 1
    /\ ret[self]["at"] >= batch_size[self]
    /\ HasBoth(items[1]) /\ 1 \notin BadAt(items)

----------------------------------------------------------------------------
(* C7: transform_item is not idempotent *)

\* C7 as stated: for every valid item with an int value v, transform_item
\* returns {id, 2v, processed: true}, which is a valid item, a second
\* transform_item gives the value 4v, and the second result differs from the
\* first.
C7_TwiceIsFourTimes ==
    \A k \in DOMAIN items :
        (validate_item(items[k]) /\ items[k]["value"]["kind"] = "int") =>
            LET v == items[k]["value"]["n"]
                once == transform_item(items[k])
            IN  /\ once = [id |-> items[k]["id"], value |-> PyInt(2 * v), processed |-> TRUE]
                /\ validate_item(once)
                /\ transform_item(once)["value"] = PyInt(4 * v)
                /\ transform_item(once) # once

\* C7 as amended: the same, the second result differing from the first for
\* every v other than 0 (for v = 0 both are {id, 0, processed: true}).
C7_TwiceIsFourTimesNonZero ==
    \A k \in DOMAIN items :
        (validate_item(items[k]) /\ items[k]["value"]["kind"] = "int") =>
            LET v == items[k]["value"]["n"]
                once == transform_item(items[k])
            IN  /\ once = [id |-> items[k]["id"], value |-> PyInt(2 * v), processed |-> TRUE]
                /\ validate_item(once)
                /\ transform_item(once)["value"] = PyInt(4 * v)
                /\ (v # 0 <=> transform_item(once) # once)

\* A call has returned the transformed form of an item of value 1.
C7_Witness ==
    /\ Returned
    /\ \E k \in DOMAIN items : items[k] = [id |-> 1, value |-> PyInt(1)]
    /\ \E k \in DOMAIN ret[self]["value"] :
            ret[self]["value"][k] = [id |-> 1, value |-> PyInt(2), processed |-> TRUE]

----------------------------------------------------------------------------
(* C8: non-positive batch sizes, and termination for positive ones *)

\* C8: a processor can be constructed with batch_size <= 0; its process_batch
\* calls never go through a slice and never raise processed_count (for 0 the
\* call raises ValueError, for a negative size it returns the empty list).
\* With batch_size >= 1 a call makes at most ceil(N / batch_size) passes, the
\* index growing by batch_size each pass, and returns after exactly that many.
C8_BatchSizeEdge ==
    LET B == batch_size[self]
        N == Len(items)
    IN  /\ \A p \in Procs : batch_size[p] <= 0 => processed_count[p] = 0
        /\ B <= 0 =>
              /\ slices = 0 /\ results = <<>>
              /\ Finished =>
                    IF B = 0
                    THEN ret[self] = [op |-> "process_batch", exc |-> "ValueError"]
                    ELSE ret[self] = [op |-> "process_batch", exc |-> "none", value |-> <<>>]
        /\ B >= 1 =>
              /\ slices <= NumSlices(N, B)
              /\ pc = "loop" => (i = slices * B /\ i < N + B)
              /\ Returned => slices = NumSlices(N, B)

\* A processor constructed with a non-positive batch size was handed a
\* non-empty input and the call is over.
C8_Witness ==
    /\ Finished /\ batch_size[self] <= 0 /\ Len(items) >= 1
    /\ processed_count[self] = 0

----------------------------------------------------------------------------
(* C9: the batch size does not show in the output *)

\* C9: for positive batch sizes and inputs on which no transformation fails, a
\* process_batch call returns what process_data returns on the whole input,
\* and two processors with different batch sizes that were given the same
\* inputs have returned equal lists and hold equal counts.
C9_BatchSizeInvisible ==
    /\ Returned => ret[self]["value"] = process_data(items)["value"]
    /\ (pc = "idle" /\ pending = {}) =>
          \A p, q \in Procs :
              /\ processed_count[p] = processed_count[q]
              /\ (ret[p]["op"] = "process_batch" /\ ret[q]["op"] = "process_batch")
                    => ret[p] = ret[q]

\* Both processors have returned a non-empty list for an input that one of
\* them cut in more slices than the other.
C9_Witness ==
    /\ pc = "idle" /\ pending = {}
    /\ \A p \in Procs : ret[p]["op"] = "process_batch" /\ ret[p]["exc"] = "none"
    /\ ret[1]["value"] # <<>>
    /\ NumSlices(Len(items), batch_size[1]) > NumSlices(Len(items), batch_size[2])
    /\ NumSlices(Len(items), batch_size[2]) > 1
    /\ count0 > 0

----------------------------------------------------------------------------
(* C10: a failing call keeps the count of the slices it completed *)

\* C10: when transform_item raises in slice k (from 0) of a call, the slices
\* 0..k-1 have been counted in full and nothing else: processed_count is its
\* value at the call's entry plus k * batch_size, which is the old value only
\* for k = 0.
C10_PartialCount ==
    Raised("TypeError") =>
        LET B == batch_size[self]
            k == (FirstBad(items) - 1) \div B
        IN  /\ B >= 1
            /\ slices = k
            /\ processed_count[self] = count0 + k * B
            /\ (processed_count[self] = count0 <=> k = 0)

\* A call raised in a slice that was not its first.
C10_Witness ==
    /\ Raised("TypeError")
    /\ slices >= 1
    /\ processed_count[self] > count0

====
